---- MODULE Spec2Model ----
(***************************************************************************)
(* Hotspot GUI glue: MainWindow's parse-lifecycle handlers, the summary    *)
(* running-time formatter, and SourceCodeModel's re-indexing of source     *)
(* lines into table rows.                                                  *)
(*                                                                         *)
(* Four specifications share the module:                                   *)
(*   SpecWindow     openFile / clear / parsingFinished / parsingFailed     *)
(*   SpecSummary    summaryDataAvailable and formatTimeString              *)
(*   SpecModel      SourceCodeModel::setDisassembly, setSysroot, data, ... *)
(*   SpecHighlight  SourceCodeModel::setDisassembly and updateHighlighting *)
(* Each leaves the variables of the other objects at their initial values. *)
(* A Q_ASSERT that fails either aborts (a build with assertions) or is     *)
(* skipped (QT_NO_DEBUG); both outcomes are kept.                          *)
(***************************************************************************)
EXTENDS Integers, Sequences, FiniteSets

VARIABLES
    \* ---- MainWindow (ui widgets) ----
    currentPage,            \* ui->mainPageStack current widget
    currentTab,             \* ui->resultsTabWidget current widget
    focusWidget,            \* widget that last received setFocus()
    progressBarVisible,     \* ui->openFileProgressBar
    loadingLabelVisible,    \* ui->loadingResultsLabel
    errorLabelVisible,      \* ui->loadingResultsErrorLabel
    errorLabelText,         \* ui->loadingResultsErrorLabel text
    windowTitle,            \* QMainWindow window title
    parserStarted,          \* m_parser->startParseFile has been called
    lastEvent,              \* history: the handler that ran last, with its argument
    pageBefore,             \* history: currentPage before the last handler
    lastPageEvent,          \* history: most recent of clear / parsingFinished
    \* ---- summary labels ----
    appRunTimeValue, threadCountValue, processCountValue, sampleCountValue,
    commandValue,
    lastRunTime,            \* history: applicationRunningTime of the last summary
    prevRunTime,            \* history: applicationRunningTime of the summary before
    prevRunTimeValue,       \* history: appRunTimeValue text before the last summary
    \* ---- SourceCodeModel ----
    m_selfCosts, m_inclusiveCosts, m_numLines, m_validLineNumbers,
    m_mainSourceFileName, m_document, m_startLine, m_lineOffset,
    m_highlightLine, m_sysroot,
    resetsBegun, resetsEnded,   \* beginResetModel / endResetModel emitted by the last
                                \* call that emits signals
    dataChangedSignal,          \* dataChanged(topLeft, bottomRight) emitted by that call
    aborted,                    \* a Q_ASSERT failed in a debug build: the process is gone
    lastCall                    \* history: what the last setDisassembly call was given

windowVars == <<currentPage, currentTab, focusWidget, progressBarVisible,
                loadingLabelVisible, errorLabelVisible, errorLabelText,
                windowTitle, parserStarted, lastEvent, pageBefore, lastPageEvent>>

summaryVars == <<appRunTimeValue, threadCountValue, processCountValue,
                 sampleCountValue, commandValue, lastRunTime, prevRunTime,
                 prevRunTimeValue>>

modelVars == <<m_selfCosts, m_inclusiveCosts, m_numLines, m_validLineNumbers,
               m_mainSourceFileName, m_document, m_startLine, m_lineOffset,
               m_highlightLine, m_sysroot, resetsBegun, resetsEnded,
               dataChangedSignal, aborted, lastCall>>

vars == <<windowVars, summaryVars, modelVars>>

(***************************************************************************)
(* MainWindow                                                              *)
(***************************************************************************)

Tabs == {"summaryTab", "bottomUpTab", "topDownTab", "flameGraphTab"}

\* Paths handed to openFile, as lists of path components; the empty path is
\* what QFileDialog::getOpenFileName returns when the dialog is cancelled.
Paths == { <<>>, <<"perf.data">>, <<"tmp", "other.data">> }

ErrorMessages == { "file not found", "perf parser crashed" }

\* QFileInfo(path).fileName(): the last component, empty for an empty path.
FileName(path) == IF Len(path) = 0 THEN "" ELSE path[Len(path)]

\* tr("%1 - Hotspot").arg(fileName)
TitleFor(path) == <<FileName(path), " - Hotspot">>

HotspotTitle == <<"Hotspot">>

\* variant: showLoadingResults without hiding the error label
showLoadingResultsKeepsError ==
    /\ progressBarVisible' = TRUE
    /\ loadingLabelVisible' = TRUE
    /\ UNCHANGED <<errorLabelVisible, errorLabelText>>

\* MainWindow::showLoadingResults()
showLoadingResults ==
    /\ progressBarVisible' = TRUE
    /\ loadingLabelVisible' = TRUE
    /\ errorLabelVisible' = FALSE
    /\ UNCHANGED errorLabelText

\* variant: hideLoadingResults without hiding the loading label
hideLoadingResultsKeepsLabel ==
    /\ progressBarVisible' = FALSE
    /\ UNCHANGED loadingLabelVisible

\* MainWindow::hideLoadingResults()
hideLoadingResults ==
    /\ progressBarVisible' = FALSE
    /\ loadingLabelVisible' = FALSE

\* the widget updates of MainWindow::clear()
clearBody ==
    /\ windowTitle' = HotspotTitle
    /\ hideLoadingResults
    /\ errorLabelVisible' = FALSE
    /\ currentPage' = "startPage"
    /\ UNCHANGED <<errorLabelText, currentTab, focusWidget, parserStarted>>

\* MainWindow::clear(), from the File menu
clear ==
    /\ clearBody
    /\ lastEvent' = [op |-> "clear", arg |-> ""]
    /\ pageBefore' = currentPage
    /\ lastPageEvent' = "clear"
    /\ UNCHANGED <<summaryVars, modelVars>>

\* MainWindow::openFile(path), also reached from on_openFileButton_clicked
openFile(path) ==
    /\ windowTitle' = TitleFor(path)
    /\ showLoadingResults
    /\ parserStarted' = TRUE
    /\ UNCHANGED <<currentPage, currentTab, focusWidget>>
    /\ lastEvent' = [op |-> "openFile", arg |-> path]
    /\ pageBefore' = currentPage
    /\ UNCHANGED lastPageEvent
    /\ UNCHANGED <<summaryVars, modelVars>>

\* variant: the parsingFinished lambda without the switch of page
parsingFinishedKeepsPage ==
    /\ currentTab' = "summaryTab"
    /\ focusWidget' = "resultsTabWidget"
    /\ hideLoadingResults
    /\ UNCHANGED <<currentPage, errorLabelVisible, errorLabelText, windowTitle>>

\* the lambda connected to PerfParser::parsingFinished
parsingFinishedHandler ==
    /\ currentPage' = "resultsPage"
    /\ currentTab' = "summaryTab"
    /\ focusWidget' = "resultsTabWidget"
    /\ hideLoadingResults
    /\ UNCHANGED <<errorLabelVisible, errorLabelText, windowTitle>>

\* variant: the parsingFailed lambda without setText
parsingFailedKeepsText(errorMessage) ==
    /\ hideLoadingResults
    /\ errorLabelVisible' = TRUE
    /\ UNCHANGED <<errorLabelText, currentPage, currentTab, focusWidget, windowTitle>>

\* the lambda connected to PerfParser::parsingFailed
parsingFailedHandler(errorMessage) ==
    /\ hideLoadingResults
    /\ errorLabelText' = errorMessage
    /\ errorLabelVisible' = TRUE
    /\ UNCHANGED <<currentPage, currentTab, focusWidget, windowTitle>>

\* PerfParser emits parsingFinished; only a parser that was started emits.
parsingFinished ==
    /\ parserStarted
    /\ parsingFinishedHandler
    /\ lastEvent' = [op |-> "parsingFinished", arg |-> ""]
    /\ pageBefore' = currentPage
    /\ lastPageEvent' = "parsingFinished"
    /\ UNCHANGED <<parserStarted, summaryVars, modelVars>>

\* PerfParser emits parsingFailed(errorMessage)
parsingFailed(errorMessage) ==
    /\ parserStarted
    /\ parsingFailedHandler(errorMessage)
    /\ lastEvent' = [op |-> "parsingFailed", arg |-> errorMessage]
    /\ pageBefore' = currentPage
    /\ UNCHANGED <<parserStarted, lastPageEvent, summaryVars, modelVars>>

\* The user picks another tab of the results tab widget (only possible while
\* the results page is the one shown).
selectTab(tab) ==
    /\ currentPage = "resultsPage"
    /\ currentTab' = tab
    /\ lastEvent' = [op |-> "selectTab", arg |-> tab]
    /\ pageBefore' = currentPage
    /\ UNCHANGED <<currentPage, focusWidget, progressBarVisible, loadingLabelVisible,
                   errorLabelVisible, errorLabelText, windowTitle, parserStarted,
                   lastPageEvent, summaryVars, modelVars>>

\* State after MainWindow::MainWindow: setupUi, start page, focus on the open
\* button, then clear().  The tab the .ui file preselects and the label text
\* it sets are not fixed by the constructor.
WindowInit ==
    /\ currentPage = "startPage"
    /\ currentTab \in Tabs
    /\ focusWidget = "openFileButton"
    /\ progressBarVisible = FALSE
    /\ loadingLabelVisible = FALSE
    /\ errorLabelVisible = FALSE
    /\ errorLabelText = ""
    /\ windowTitle = HotspotTitle
    /\ parserStarted = FALSE
    /\ lastEvent = [op |-> "clear", arg |-> ""]
    /\ pageBefore = "startPage"
    /\ lastPageEvent = "clear"

(***************************************************************************)
(* Summary: formatTimeString                                               *)
(***************************************************************************)

\* Largest number of days among the running times delivered.
MaxDays == 100

\* A quint64 count of nanoseconds is kept as two limbs, sec * 10^9 + nsec
\* with 0 <= nsec < 10^9, so that the values stay within TLC's 32-bit
\* integers; nanoseconds / 1000000000 is then sec and
\* (nanoseconds / 1000000) % 1000 is (nsec \div 1000000) % 1000.
Nanoseconds(d, h, m, s, ms, sub) ==
    [sec |-> ((d * 24 + h) * 60 + m) * 60 + s, nsec |-> ms * 1000000 + sub]

RunningTimes ==
    { Nanoseconds(d, h, m, s, ms, sub) :
        d \in {0, 1, MaxDays}, h \in {0, 1}, m \in {0, 1, 59},
        s \in {0, 5}, ms \in {0, 7}, sub \in {0, 999999} }

SummaryInputs ==
    [applicationRunningTime : RunningTimes, threadCount : {12},
     processCount : {1}, sampleCount : {1500}, command : {"perf record ./a.out"}]

DigitChar(d) == <<"0", "1", "2", "3", "4", "5", "6", "7", "8", "9">>[d + 1]

RECURSIVE QStringNumber(_)
\* QString::number(n) for n >= 0: the decimal digits, no padding
QStringNumber(n) ==
    IF n < 10 THEN <<DigitChar(n)>>
    ELSE QStringNumber(n \div 10) \o <<DigitChar(n % 10)>>

RECURSIVE rightJustified(_, _, _)
\* QString::rightJustified(width, fill): pads on the left, never truncates
rightJustified(str, width, fill) ==
    IF Len(str) >= width THEN str
    ELSE rightJustified(<<fill>> \o str, width, fill)

\* the lambda `format`
format(fragment, precision) == rightJustified(QStringNumber(fragment), precision, "0")

\* the lambda `optional`
optional(fragment) ==
    IF fragment > 0 THEN format(fragment, 2) \o <<":">> ELSE <<>>

totalSecondsOf(nanoseconds) == nanoseconds.sec
daysOf(nanoseconds) == ((totalSecondsOf(nanoseconds) \div 60) \div 60) \div 24
hoursOf(nanoseconds) == ((totalSecondsOf(nanoseconds) \div 60) \div 60) % 24
minutesOf(nanoseconds) == (totalSecondsOf(nanoseconds) \div 60) % 60
secondsOf(nanoseconds) == totalSecondsOf(nanoseconds) % 60
millisecondsOf(nanoseconds) == (nanoseconds.nsec \div 1000000) % 1000

formatTimeString(nanoseconds) ==
    optional(daysOf(nanoseconds)) \o optional(hoursOf(nanoseconds))
        \o optional(minutesOf(nanoseconds))
        \o format(secondsOf(nanoseconds), 2) \o <<".">>
        \o format(millisecondsOf(nanoseconds), 3) \o <<"s">>

\* the lambda connected to PerfParser::summaryDataAvailable
summaryDataAvailable(data) ==
    /\ appRunTimeValue' = formatTimeString(data.applicationRunningTime)
    /\ threadCountValue' = QStringNumber(data.threadCount)
    /\ processCountValue' = QStringNumber(data.processCount)
    /\ sampleCountValue' = QStringNumber(data.sampleCount)
    /\ commandValue' = data.command
    /\ lastRunTime' = data.applicationRunningTime
    /\ prevRunTime' = lastRunTime
    /\ prevRunTimeValue' = appRunTimeValue
    /\ UNCHANGED <<windowVars, modelVars>>

NoTime == [sec |-> -1, nsec |-> -1]

\* The summary labels before any summary arrived (their .ui texts are not
\* read by any code here).
SummaryInit ==
    /\ appRunTimeValue = <<>>
    /\ threadCountValue = <<>>
    /\ processCountValue = <<>>
    /\ sampleCountValue = <<>>
    /\ commandValue = ""
    /\ lastRunTime = NoTime
    /\ prevRunTime = NoTime
    /\ prevRunTimeValue = <<>>

(***************************************************************************)
(* SourceCodeModel: inputs                                                 *)
(***************************************************************************)

\* Largest sourceCodeLine a disassembly line carries.
MaxLine == 3

\* Largest number of disassembly lines of one DisassemblyOutput.
MaxDisasmLines == 2

\* Number of lines of main.cpp as found without a sysroot.
FullFileLines == 4

\* Number of lines of the (older, shorter) main.cpp found under the sysroot.
ShortFileLines == 2

INT_MAX == 2147483647

\* enum Columns { SourceCodeLineNumber, SourceCodeColumn, COLUMN_COUNT }
SourceCodeLineNumber == 0
SourceCodeColumn == 1
COLUMN_COUNT == 2

Sysroots == {"", "/sysroot"}

MainFile == "main.cpp"
GoneFile == "gone.cpp"
OtherFile == "other.h"

\* Text of a document block: a source line, the pretty symbol, or nothing.
SrcText(n) == [kind |-> "src", n |-> n]
SymText == [kind |-> "sym", n |-> 0]
EmptyText == [kind |-> "empty", n |-> 0]

\* The file system: the lines of sysroot + '/' + name, or <<>> if
\* QFile::open fails.  QTextDocument keeps one block per line of the text.
FileContents(sysroot, name) ==
    IF name = MainFile
    THEN [i \in 1..(IF sysroot = "" THEN FullFileLines ELSE ShortFileLines) |-> SrcText(i)]
    ELSE <<>>

FileOpens(sysroot, name) == name = MainFile

\* Data::Costs, as a value: the cost types, their totals, and a cost vector
\* (one entry per type) for every id that got a cost.
EmptyCosts == [typeNames |-> <<>>, totalCosts |-> <<>>, costs |-> <<>>]

numTypes(costs) == Len(costs.typeNames)

\* Costs::initializeCostsFrom: the types and totals, no per-id cost
initializeCostsFrom(rhs) ==
    [typeNames |-> rhs.typeNames, totalCosts |-> rhs.totalCosts, costs |-> <<>>]

\* Costs::add(id, cost): element-wise sum into the id's vector
CostsAdd(costs, id, cost) ==
    [costs EXCEPT !.costs =
        [x \in (DOMAIN costs.costs) \cup {id} |->
            IF x = id
            THEN [t \in 1..numTypes(costs) |->
                    (IF id \in DOMAIN costs.costs THEN costs.costs[id][t] ELSE 0) + cost[t]]
            ELSE costs.costs[x]]]

\* Costs::cost(type, id): 0 for an id without a vector (type is 0-based)
CostsCost(costs, type, id) ==
    IF id \in DOMAIN costs.costs THEN costs.costs[id][type + 1] ELSE 0

\* Costs::totalCost(type)
CostsTotalCost(costs, type) == costs.totalCosts[type + 1]

OneType == [typeNames |-> <<"cycles">>, totalCosts |-> <<40>>, costs |-> <<>>]
TwoTypes == [typeNames |-> <<"cycles", "cache-misses">>, totalCosts |-> <<40, 9>>,
             costs |-> <<>>]

\* Data::CallerCalleeResults: entries (symbol -> offsetMap: addr -> LocationCost)
\* and the cost types.  Addresses of the disassembly lines are 1, 2, ...
Results ==
    { [entries |-> [s \in {"bar()"} |-> [a \in {1} |-> [selfCost |-> <<7>>, inclusiveCost |-> <<7>>]]],
       selfCosts |-> OneType, inclusiveCosts |-> OneType],
      [entries |-> [s \in {"foo()"} |-> [a \in {1} |-> [selfCost |-> <<1>>, inclusiveCost |-> <<3>>]]],
       selfCosts |-> OneType, inclusiveCosts |-> OneType],
      [entries |-> [s \in {"foo()", "bar()"} |->
                      [a \in {1, 2} |-> [selfCost |-> <<a, 0>>, inclusiveCost |-> <<a + 2, 1>>]]],
       selfCosts |-> TwoTypes, inclusiveCosts |-> TwoTypes] }

\* One DisassemblyLine without its address; a line of another file matters
\* only through being skipped, so one line number stands for them.
LineShapes ==
    [sourceCodeLine : 0..MaxLine, sourceFileName : {MainFile}]
        \cup [sourceCodeLine : {MaxLine}, sourceFileName : {OtherFile}]

RECURSIVE SeqsUpTo(_, _)
SeqsUpTo(S, n) ==
    IF n = 0 THEN {<<>>}
    ELSE LET shorter == SeqsUpTo(S, n - 1)
         IN shorter \cup { Append(q, x) : q \in {r \in shorter : Len(r) = n - 1}, x \in S }

\* disassemblyLines: the i-th instruction has address i
DisassemblyLineSeqs ==
    { [i \in 1..Len(q) |-> [addr |-> i, sourceCodeLine |-> q[i].sourceCodeLine,
                             sourceFileName |-> q[i].sourceFileName]] :
        q \in SeqsUpTo(LineShapes, MaxDisasmLines) }

\* DisassemblyOutput values: every line sequence for the file that opens; for
\* an empty or unopenable main file the lines are never looked at.
DisassemblyOutputs ==
    [mainSourceFileName : {MainFile}, symbol : {"foo()"}, disassemblyLines : DisassemblyLineSeqs]
        \cup [mainSourceFileName : {"", GoneFile}, symbol : {"foo()"},
              disassemblyLines : { q \in DisassemblyLineSeqs : Len(q) = MaxDisasmLines
                                     /\ \A i \in 1..Len(q) : q[i] = [addr |-> i,
                                            sourceCodeLine |-> MaxLine,
                                            sourceFileName |-> MainFile] } ]

(***************************************************************************)
(* SourceCodeModel: operations                                             *)
(***************************************************************************)

NoSignal == [topRow |-> -1, topColumn |-> -1, bottomRow |-> -1, bottomColumn |-> -1]

\* QTextDocument::findBlockByLineNumber: the 0-based block number, or -1 for
\* the invalid block a line number outside the document yields
findBlockByLineNumber(document, lineNumber) ==
    IF lineNumber >= 0 /\ lineNumber < Len(document) THEN lineNumber ELSE -1

\* QTextCursor(block): an invalid block has position 0, so the cursor sits
\* in the first block of the document
cursorBlock(document, lineNumber) ==
    IF findBlockByLineNumber(document, lineNumber) >= 0
    THEN findBlockByLineNumber(document, lineNumber)
    ELSE 0

\* variant: the `continue` condition without the comparison of file names
skipLineIgnoresFile(line, disassemblyOutput) == line.sourceCodeLine = 0

\* the `continue` condition of the loop over the disassembly lines
skipLine(line, disassemblyOutput) ==
    \/ line.sourceCodeLine = 0
    \/ line.sourceFileName # disassemblyOutput.mainSourceFileName

\* results.entries.find(symbol) and entry->offsetMap.find(line.addr) both hit
hasLocationCost(line, disassemblyOutput, results) ==
    /\ disassemblyOutput.symbol \in DOMAIN results.entries
    /\ line.addr \in DOMAIN results.entries[disassemblyOutput.symbol]

\* it.value(), the LocationCost found for line.addr
locationCostOf(line, disassemblyOutput, results) ==
    results.entries[disassemblyOutput.symbol][line.addr]

\* one iteration of the loop body, on the loop's running values
loopBody(acc, line, disassemblyOutput, results) ==
    IF skipLine(line, disassemblyOutput) THEN acc
    ELSE [acc EXCEPT
            !.maxLineNumber = IF line.sourceCodeLine > @ THEN line.sourceCodeLine ELSE @,
            !.minLineNumber = IF line.sourceCodeLine < @ THEN line.sourceCodeLine ELSE @,
            !.selfCosts = IF hasLocationCost(line, disassemblyOutput, results)
                          THEN CostsAdd(@, line.sourceCodeLine,
                                        locationCostOf(line, disassemblyOutput, results).selfCost)
                          ELSE @,
            !.inclusiveCosts = IF hasLocationCost(line, disassemblyOutput, results)
                               THEN CostsAdd(@, line.sourceCodeLine,
                                             locationCostOf(line, disassemblyOutput, results).inclusiveCost)
                               ELSE @,
            !.validLineNumbers = @ \cup {line.sourceCodeLine}]

RECURSIVE loopFrom(_, _, _, _)
\* the loop over disassemblyOutput.disassemblyLines from line i on
loopFrom(acc, i, disassemblyOutput, results) ==
    IF i > Len(disassemblyOutput.disassemblyLines) THEN acc
    ELSE loopFrom(loopBody(acc, disassemblyOutput.disassemblyLines[i], disassemblyOutput, results),
                  i + 1, disassemblyOutput, results)

\* the values the loop ends with
loopResult(disassemblyOutput, results) ==
    loopFrom([maxLineNumber |-> 0, minLineNumber |-> INT_MAX,
              selfCosts |-> initializeCostsFrom(results.selfCosts),
              inclusiveCosts |-> initializeCostsFrom(results.inclusiveCosts),
              validLineNumbers |-> {}],
             1, disassemblyOutput, results)

\* Q_ASSERT(minLineNumber > 0); Q_ASSERT(minLineNumber < maxLineNumber);
assertionsHold(minLineNumber, maxLineNumber) ==
    /\ minLineNumber > 0
    /\ minLineNumber < maxLineNumber

\* variant: m_startLine one line further down
startLineOffByOne(minLineNumber) == minLineNumber - 1

\* m_startLine = minLineNumber - 2
startLineFor(minLineNumber) == minLineNumber - 2

\* m_lineOffset = minLineNumber - 1
lineOffsetFor(minLineNumber) == minLineNumber - 1

\* ---- what a call was given, stated on the input alone (history only) ----

\* positions of the disassembly lines of the main source file with a line number
Passing(o) ==
    { i \in 1..Len(o.disassemblyLines) :
        /\ o.disassemblyLines[i].sourceCodeLine # 0
        /\ o.disassemblyLines[i].sourceFileName = o.mainSourceFileName }

PassingLines(o) == { o.disassemblyLines[i].sourceCodeLine : i \in Passing(o) }

\* positions of the passing lines of source line L whose addr has a cost entry
Costed(o, r, L) ==
    { i \in Passing(o) :
        /\ o.disassemblyLines[i].sourceCodeLine = L
        /\ o.symbol \in DOMAIN r.entries
        /\ o.disassemblyLines[i].addr \in DOMAIN r.entries[o.symbol] }

RECURSIVE SumOver(_, _, _, _, _)
\* sum over the positions I of the t-th component of the given cost of the addr
SumOver(I, o, r, which, t) ==
    IF I = {} THEN 0
    ELSE LET i == CHOOSE x \in I : TRUE
             c == r.entries[o.symbol][o.disassemblyLines[i].addr]
         IN (IF which = "self" THEN c.selfCost[t] ELSE c.inclusiveCost[t])
                + SumOver(I \ {i}, o, r, which, t)

SetMin(S) == CHOOSE x \in S : \A y \in S : x <= y
SetMax(S) == CHOOSE x \in S : \A y \in S : x >= y

GivenOf(o, r) ==
    [mainSourceFileName |-> o.mainSourceFileName,
     passingLines |-> PassingLines(o),
     skippedLines |-> { o.disassemblyLines[i].sourceCodeLine :
                          i \in (1..Len(o.disassemblyLines)) \ Passing(o) },
     selfSum |-> [L \in 1..MaxLine |-> [t \in 1..Len(r.selfCosts.typeNames) |->
                    SumOver(Costed(o, r, L), o, r, "self", t)]],
     inclusiveSum |-> [L \in 1..MaxLine |-> [t \in 1..Len(r.inclusiveCosts.typeNames) |->
                    SumOver(Costed(o, r, L), o, r, "inclusive", t)]]]

callRecord(call, outcome) ==
    [op |-> "setDisassembly", outcome |-> outcome, sysroot |-> m_sysroot,
     minLineNumber |-> call.loop.minLineNumber, maxLineNumber |-> call.loop.maxLineNumber,
     given |-> call.given]

\* variant: an early return that leaves m_numLines as it was
earlyReturnKeepsRows ==
    /\ m_selfCosts' = EmptyCosts
    /\ m_inclusiveCosts' = EmptyCosts
    /\ UNCHANGED m_numLines
    /\ UNCHANGED <<m_validLineNumbers, m_mainSourceFileName, m_document,
                   m_startLine, m_lineOffset>>
    /\ resetsBegun' = 1
    /\ resetsEnded' = 1

\* setDisassembly up to one of its two early returns: the members are reset,
\* the scope guard emits endResetModel
earlyReturn ==
    /\ m_selfCosts' = EmptyCosts
    /\ m_inclusiveCosts' = EmptyCosts
    /\ m_numLines' = 0
    /\ UNCHANGED <<m_validLineNumbers, m_mainSourceFileName, m_document,
                   m_startLine, m_lineOffset>>
    /\ resetsBegun' = 1
    /\ resetsEnded' = 1

\* setDisassembly past the loop, with the loop's result r
afterLoop(disassemblyOutput, r) ==
    /\ m_selfCosts' = r.selfCosts
    /\ m_inclusiveCosts' = r.inclusiveCosts
    /\ m_validLineNumbers' = r.validLineNumbers
    /\ m_mainSourceFileName' = disassemblyOutput.mainSourceFileName
    /\ m_startLine' = startLineFor(r.minLineNumber)
    /\ m_lineOffset' = lineOffsetFor(r.minLineNumber)
    /\ m_numLines' = r.maxLineNumber - startLineFor(r.minLineNumber)
    /\ LET text == FileContents(m_sysroot, disassemblyOutput.mainSourceFileName)
           \* setPlainText of an empty file leaves the document's one empty block
           document == IF Len(text) = 0 THEN <<EmptyText>> ELSE text
       IN m_document' = [document EXCEPT
                            ![cursorBlock(document, startLineFor(r.minLineNumber)) + 1] = SymText]
    /\ resetsBegun' = 1
    /\ resetsEnded' = 1

\* a failed Q_ASSERT in a build that compiles it in: qFatal, the members as
\* assigned so far, no endResetModel
assertAbort(disassemblyOutput, r) ==
    /\ m_selfCosts' = r.selfCosts
    /\ m_inclusiveCosts' = r.inclusiveCosts
    /\ m_validLineNumbers' = r.validLineNumbers
    /\ m_mainSourceFileName' = disassemblyOutput.mainSourceFileName
    /\ m_numLines' = 0
    /\ LET text == FileContents(m_sysroot, disassemblyOutput.mainSourceFileName)
       IN m_document' = IF Len(text) = 0 THEN <<EmptyText>> ELSE text
    /\ UNCHANGED <<m_startLine, m_lineOffset>>
    /\ resetsBegun' = 1
    /\ resetsEnded' = 0
    /\ aborted' = TRUE

\* The calls of setDisassembly: the two arguments, with the values the loop
\* ends with for them and what the call was given (both functions of the
\* arguments alone, computed once per call value).
Calls(outputs, results) ==
    { [disassemblyOutput |-> o, results |-> r,
       loop |-> loopResult(o, r), given |-> GivenOf(o, r)] :
        o \in outputs, r \in results }

setDisassemblyCalls == Calls(DisassemblyOutputs, Results)

\* SourceCodeModel::setDisassembly(disassemblyOutput, results)
setDisassembly(call) ==
    /\ ~aborted
    /\ dataChangedSignal' = NoSignal
    /\ UNCHANGED <<m_highlightLine, m_sysroot, windowVars, summaryVars>>
    /\ IF call.disassemblyOutput.mainSourceFileName = ""
       THEN /\ earlyReturn
            /\ lastCall' = callRecord(call, "emptyName")
            /\ UNCHANGED aborted
       ELSE IF ~FileOpens(m_sysroot, call.disassemblyOutput.mainSourceFileName)
       THEN /\ earlyReturn
            /\ lastCall' = callRecord(call, "openFailed")
            /\ UNCHANGED aborted
       ELSE IF assertionsHold(call.loop.minLineNumber, call.loop.maxLineNumber)
       THEN /\ afterLoop(call.disassemblyOutput, call.loop)
            /\ lastCall' = callRecord(call, "done")
            /\ UNCHANGED aborted
       ELSE \/ /\ afterLoop(call.disassemblyOutput, call.loop)
               /\ lastCall' = callRecord(call, "doneAssertOff")
               /\ UNCHANGED aborted
            \/ /\ assertAbort(call.disassemblyOutput, call.loop)
               /\ lastCall' = callRecord(call, "assertFailed")

\* SourceCodeModel::setSysroot(sysroot)
setSysroot(sysroot) ==
    /\ ~aborted
    /\ m_sysroot' = sysroot
    /\ UNCHANGED <<resetsBegun, resetsEnded, dataChangedSignal>>
    /\ UNCHANGED lastCall
    /\ UNCHANGED <<m_selfCosts, m_inclusiveCosts, m_numLines, m_validLineNumbers,
                   m_mainSourceFileName, m_document, m_startLine, m_lineOffset,
                   m_highlightLine, aborted, windowVars, summaryVars>>

\* SourceCodeModel::columnCount() for the root index
columnCount == COLUMN_COUNT + numTypes(m_selfCosts) + numTypes(m_inclusiveCosts)

\* SourceCodeModel::rowCount() for the root index
rowCount == m_numLines

\* the row of the bottom-right index updateHighlighting creates
dataChangedBottomRow == rowCount

\* SourceCodeModel::updateHighlighting(line)
updateHighlighting(line) ==
    /\ ~aborted
    /\ m_highlightLine' = line
    /\ dataChangedSignal' = [topRow |-> 0, topColumn |-> SourceCodeColumn,
                             bottomRow |-> dataChangedBottomRow,
                             bottomColumn |-> SourceCodeColumn]
    /\ resetsBegun' = 0
    /\ resetsEnded' = 0
    /\ lastCall' = [op |-> "updateHighlighting", outcome |-> "none", line |-> line]
    /\ UNCHANGED <<m_selfCosts, m_inclusiveCosts, m_numLines, m_validLineNumbers,
                   m_mainSourceFileName, m_document, m_startLine, m_lineOffset,
                   m_sysroot, aborted, windowVars, summaryVars>>

\* QAbstractItemModel::hasIndex(row, column) for the root parent
hasIndex(row, column) ==
    /\ row >= 0 /\ column >= 0
    /\ row < rowCount /\ column < columnCount

\* SourceCodeModel::lineForIndex(index)
lineForIndex(row) == row + m_lineOffset

Invalid == [kind |-> "invalid"]
IntVariant(n) == [kind |-> "int", value |-> n]

\* the block data() looks up for the source-code column of a row
blockForRow(row) == findBlockByLineNumber(m_document, row + m_startLine)

\* the lambda `cost` of data(), for the line of the row
costVariant(role, row, type, costs) ==
    IF role = "CostRole" THEN IntVariant(CostsCost(costs, type, row + m_lineOffset))
    ELSE IF role = "TotalCostRole" THEN IntVariant(CostsTotalCost(costs, type))
    ELSE [kind |-> "relative", cost |-> CostsCost(costs, type, row + m_lineOffset),
          total |-> CostsTotalCost(costs, type)]

DisplayRoles == {"DisplayRole", "ToolTipRole", "CostRole", "TotalCostRole", "SyntaxHighlightRole"}

\* SourceCodeModel::data(index, role) for index = (row, column) under the root
data(row, column, role) ==
    IF ~hasIndex(row, column) THEN Invalid
    ELSE IF row > m_numLines \/ row < 0 THEN Invalid
    ELSE IF role = "FileNameRole" THEN [kind |-> "string", value |-> m_mainSourceFileName]
    ELSE IF role = "LineNumberRole" THEN IntVariant(row + m_lineOffset)
    ELSE IF role \in DisplayRoles
    THEN IF column = SourceCodeColumn
         THEN IF blockForRow(row) < 0 THEN Invalid
              ELSE IF role = "SyntaxHighlightRole"
              THEN [kind |-> "textLine", block |-> blockForRow(row)]
              ELSE [kind |-> "text", value |-> m_document[blockForRow(row) + 1]]
         ELSE IF column = SourceCodeLineNumber THEN IntVariant(row + m_lineOffset)
         ELSE IF column - COLUMN_COUNT < numTypes(m_selfCosts)
         THEN costVariant(role, row, column - COLUMN_COUNT, m_selfCosts)
         ELSE costVariant(role, row, column - COLUMN_COUNT - numTypes(m_selfCosts),
                          m_inclusiveCosts)
    ELSE IF role = "HighlightRole"
    THEN [kind |-> "bool", value |-> (row + m_lineOffset = m_highlightLine)]
    ELSE IF role = "RainbowLineNumberRole"
    THEN IF (row + m_lineOffset) \in m_validLineNumbers
         THEN IntVariant(row + m_lineOffset) ELSE IntVariant(-1)
    ELSE Invalid

\* State after SourceCodeModel::SourceCodeModel: an empty document (one empty
\* block), no costs, no rows.
ModelInit ==
    /\ m_selfCosts = EmptyCosts
    /\ m_inclusiveCosts = EmptyCosts
    /\ m_numLines = 0
    /\ m_validLineNumbers = {}
    /\ m_mainSourceFileName = ""
    /\ m_document = <<EmptyText>>
    /\ m_startLine = 0
    /\ m_lineOffset = 0
    /\ m_highlightLine = 0
    /\ m_sysroot = ""
    /\ resetsBegun = 0
    /\ resetsEnded = 0
    /\ dataChangedSignal = NoSignal
    /\ aborted = FALSE
    /\ lastCall = [op |-> "construct", outcome |-> "none"]

(***************************************************************************)
(* Specifications                                                          *)
(***************************************************************************)

Init == WindowInit /\ SummaryInit /\ ModelInit

\* the window left alone, on the tab the summary is shown in
InitIdleWindow == Init /\ currentTab = "summaryTab"

WindowNext ==
    \/ clear
    \/ \E path \in Paths : openFile(path)
    \/ parsingFinished
    \/ \E errorMessage \in ErrorMessages : parsingFailed(errorMessage)
    \/ \E tab \in Tabs : selectTab(tab)

SpecWindow == Init /\ [][WindowNext]_vars

SummaryNext == \E d \in SummaryInputs : summaryDataAvailable(d)

SpecSummary == InitIdleWindow /\ [][SummaryNext]_vars

ModelNext ==
    \/ \E call \in setDisassemblyCalls : setDisassembly(call)
    \/ \E sysroot \in Sysroots : setSysroot(sysroot)

SpecModel == InitIdleWindow /\ [][ModelNext]_vars

\* the highlighting is exercised on the results with two cost types
HighlightCalls == Calls(DisassemblyOutputs, { r \in Results : Len(r.selfCosts.typeNames) = 2 })

HighlightNext ==
    \/ \E call \in HighlightCalls : setDisassembly(call)
    \/ \E line \in 0..MaxLine : updateHighlighting(line)

SpecHighlight == InitIdleWindow /\ [][HighlightNext]_vars

(***************************************************************************)
(* Properties                                                              *)
(***************************************************************************)

\* C1: after the parsingFailed(errorMessage) handler the error label is
\* visible with text errorMessage, the progress bar and the loading label
\* are hidden, and the page of the main page stack is the one shown before.
C1_ParsingFailedShowsError ==
    lastEvent.op = "parsingFailed" =>
        /\ errorLabelVisible
        /\ errorLabelText = lastEvent.arg
        /\ ~progressBarVisible
        /\ ~loadingLabelVisible
        /\ currentPage = pageBefore

\* a failure reported while the results of an earlier parse are on screen
C1_Witness ==
    /\ lastEvent.op = "parsingFailed"
    /\ lastEvent.arg = "perf parser crashed"
    /\ pageBefore = "resultsPage"
    /\ errorLabelVisible

\* C2: after the parsingFinished handler the page stack shows the results
\* page, the tab widget shows the summary tab, and the progress bar and the
\* loading label are hidden, from every reachable window state.
C2_ParsingFinishedShowsSummary ==
    lastEvent.op = "parsingFinished" =>
        /\ currentPage = "resultsPage"
        /\ currentTab = "summaryTab"
        /\ ~progressBarVisible
        /\ ~loadingLabelVisible

\* parsingFinished arriving on the start page after the window was cleared
C2_Witness ==
    /\ lastEvent.op = "parsingFinished"
    /\ pageBefore = "startPage"
    /\ windowTitle = HotspotTitle
    /\ currentTab = "summaryTab"

\* C3: in every reachable state the progress bar and the loading label have
\* the same visibility, and the error label is never visible while they are.
C3_LoadingWidgetsConsistent ==
    /\ progressBarVisible = loadingLabelVisible
    /\ ~(errorLabelVisible /\ progressBarVisible)
    /\ ~(errorLabelVisible /\ loadingLabelVisible)

\* a file opened after an earlier parse failed: the error text is still
\* set, the loading widgets are shown
C3_Witness ==
    /\ lastEvent.op = "openFile"
    /\ errorLabelText \in ErrorMessages
    /\ progressBarVisible
    /\ loadingLabelVisible

\* C8: the page stack shows the results page exactly when the most recent of
\* clear / parsingFinished was parsingFinished, the start page otherwise;
\* openFile and parsingFailed leave the page alone; a parsingFinished that
\* arrives after clear() still switches to the results page.
C8_PageFollowsLastPageEvent ==
    /\ (currentPage = "resultsPage") <=> (lastPageEvent = "parsingFinished")
    /\ (currentPage = "startPage") <=> (lastPageEvent = "clear")
    /\ lastEvent.op \in {"openFile", "parsingFailed"} => currentPage = pageBefore
    /\ lastEvent.op = "parsingFinished" => currentPage = "resultsPage"

\* parsingFinished delivered after clear() with no openFile in between (the
\* title is still the one clear() set): the results page is shown
C8_Witness ==
    /\ lastEvent.op = "parsingFinished"
    /\ windowTitle = HotspotTitle
    /\ pageBefore = "startPage"
    /\ currentPage = "resultsPage"

Decomposition(nanoseconds) ==
    <<daysOf(nanoseconds), hoursOf(nanoseconds), minutesOf(nanoseconds),
      secondsOf(nanoseconds), millisecondsOf(nanoseconds)>>

\* the last n characters of a string
Suffix(str, n) == SubSeq(str, Len(str) - n + 1, Len(str))

\* C10: formatTimeString is unambiguous at millisecond granularity (two
\* running times with different days / hours / minutes / seconds /
\* milliseconds give different strings), and the string ends with the
\* two-digit seconds, '.', the three-digit milliseconds and 's'.
C10_TimeStringUnambiguous ==
    /\ (lastRunTime # NoTime) =>
          /\ Len(appRunTimeValue) >= 7
          /\ Suffix(appRunTimeValue, 7) =
                format(secondsOf(lastRunTime), 2) \o <<".">>
                    \o format(millisecondsOf(lastRunTime), 3) \o <<"s">>
    /\ (prevRunTime # NoTime /\ Decomposition(prevRunTime) # Decomposition(lastRunTime)) =>
          prevRunTimeValue # appRunTimeValue

ReachedLoopEnd == {"done", "doneAssertOff", "assertFailed"}
Completed == {"done", "doneAssertOff"}
EarlyReturns == {"emptyName", "openFailed"}

\* C6: every setDisassembly call that reaches the end of its loop satisfies
\* both assertions, minLineNumber > 0 and minLineNumber < maxLineNumber.
C6_AssertionsHold ==
    lastCall.outcome \in ReachedLoopEnd =>
        /\ lastCall.minLineNumber > 0
        /\ lastCall.minLineNumber < lastCall.maxLineNumber

\* C9: updateHighlighting(line) stores line and emits dataChanged for the
\* source-code column from row 0 to a valid row of the model,
\* 0 <= row < rowCount(), in every state of the model.
C9_DataChangedRowsValid ==
    lastCall.op = "updateHighlighting" =>
        /\ m_highlightLine = lastCall.line
        /\ dataChangedSignal.topRow = 0
        /\ dataChangedSignal.topColumn = SourceCodeColumn
        /\ dataChangedSignal.bottomColumn = SourceCodeColumn
        /\ dataChangedSignal.bottomRow >= 0
        /\ dataChangedSignal.bottomRow < rowCount

\* the least and greatest line number the last call was given for the main file
GivenMin == SetMin(lastCall.given.passingLines)
GivenMax == SetMax(lastCall.given.passingLines)

\* the last call opened the file and was given lines with 1 <= m < M
C4_Case ==
    /\ lastCall.outcome \in Completed
    /\ lastCall.given.passingLines # {}
    /\ GivenMin >= 1
    /\ GivenMax > GivenMin

\* what C4 says of the row count and of the line numbers of each row
C4_LineNumbers ==
    /\ rowCount = GivenMax - GivenMin + 2
    /\ \A r \in 0..(rowCount - 1) :
          /\ data(r, SourceCodeColumn, "LineNumberRole") = IntVariant(r + GivenMin - 1)
          /\ data(r, SourceCodeLineNumber, "DisplayRole") = IntVariant(r + GivenMin - 1)
          /\ lineForIndex(r) = r + GivenMin - 1
    /\ lineForIndex(rowCount - 1) = GivenMax

\* the source-code column of row r returns the text of the block on the
\* 1-based line r + m - 1
C4_RowShowsItsLine(r) ==
    /\ data(r, SourceCodeColumn, "DisplayRole").kind = "text"
    /\ blockForRow(r) + 1 = r + GivenMin - 1
    /\ data(r, SourceCodeColumn, "DisplayRole").value = m_document[r + GivenMin - 1]

\* C4 as stated: rowCount() = M - m + 2, every row r reports line r + m - 1
\* (LineNumberRole, line-number column, lineForIndex), that line is the
\* 1-based line of the block the source-code column returns for the row,
\* and the last row is line M.
C4_Original ==
    C4_Case => /\ C4_LineNumbers
               /\ \A r \in 0..(rowCount - 1) : C4_RowShowsItsLine(r)

\* C4 amended: as stated for the row count and the line numbers; the
\* source-code column returns the block on that line for the rows whose
\* line lies in the document, and no value for the others (row 0 when
\* m = 1, rows past the end of the file).
C4_RowsMapToLines ==
    C4_Case => /\ C4_LineNumbers
               /\ \A r \in 0..(rowCount - 1) :
                     IF 1 <= r + GivenMin - 1 /\ r + GivenMin - 1 <= Len(m_document)
                     THEN C4_RowShowsItsLine(r)
                     ELSE data(r, SourceCodeColumn, "DisplayRole").kind = "invalid"

\* lines 2..3 of the full file: rows for lines 1, 2, 3, each with its block
C4_Witness ==
    /\ C4_Case
    /\ lastCall.outcome = "done"
    /\ GivenMin = 2
    /\ rowCount = 3
    /\ Len(m_document) = FullFileLines
    /\ \A r \in 0..(rowCount - 1) : C4_RowShowsItsLine(r)

\* C5: a call with an empty main source file name, or with a file that
\* cannot be opened, leaves rowCount() = 0 and no cost columns, whatever the
\* model held before; every call that returns has emitted beginResetModel
\* once and endResetModel once.
C5_FailedCallEmptiesModel ==
    /\ lastCall.outcome \in EarlyReturns =>
          /\ rowCount = 0
          /\ columnCount = COLUMN_COUNT
    /\ lastCall.outcome \in (EarlyReturns \cup Completed) =>
          /\ resetsBegun = 1
          /\ resetsEnded = 1

\* the file could not be opened, after an earlier call had filled the model
C5_Witness ==
    /\ lastCall.outcome = "openFailed"
    /\ m_validLineNumbers # {}
    /\ m_mainSourceFileName = MainFile
    /\ rowCount = 0
    /\ resetsEnded = 1

\* C7: after a successful setDisassembly the self (inclusive) cost of every
\* source line L is the sum of the self (inclusive) location costs of the
\* disassembly lines of the main file with sourceCodeLine = L # 0 whose addr
\* is in the symbol's offsetMap; lines of other files or with line 0 add no
\* cost and no valid line number; every line passing the filter is a valid
\* line number, with or without a cost entry.
C7_CostsAreSumsOverPassingLines ==
    lastCall.outcome \in Completed =>
        /\ m_validLineNumbers = lastCall.given.passingLines
        /\ DOMAIN m_selfCosts.costs \subseteq lastCall.given.passingLines
        /\ DOMAIN m_inclusiveCosts.costs \subseteq lastCall.given.passingLines
        /\ \A L \in 1..MaxLine :
              /\ \A t \in 1..numTypes(m_selfCosts) :
                    CostsCost(m_selfCosts, t - 1, L) = lastCall.given.selfSum[L][t]
              /\ \A t \in 1..numTypes(m_inclusiveCosts) :
                    CostsCost(m_inclusiveCosts, t - 1, L) = lastCall.given.inclusiveSum[L][t]

\* a call given two lines of the main file, one whose addr has a cost entry
\* and one whose addr has none: both are valid line numbers, one has a cost
C7_Witness ==
    /\ lastCall.outcome = "done"
    /\ lastCall.given.skippedLines = {}
    /\ Cardinality(lastCall.given.passingLines) = 2
    /\ Cardinality(DOMAIN m_selfCosts.costs) = 1
    /\ \E L \in DOMAIN m_selfCosts.costs : CostsCost(m_selfCosts, 0, L) = 1

====
